---- MODULE Spec2Model ----
(***************************************************************************)
(* Model of mattrichmo/ultimate-optimizer (src/mainsort.py, src/main.py):  *)
(* the directory walker, the per-image pipeline (rename, inspect,          *)
(* re-encode, downscale, record), the catalog and the manifest.            *)
(*                                                                         *)
(* File names are sequences of tokens ("a", "-original", ".jpg", ...), so  *)
(* that pathlib's stem/suffix split, the endswith() extension test and the *)
(* substring test on the stem are computed as the code computes them.      *)
(* The codec and the storage engine are external: each of their calls      *)
(* either succeeds or raises, the latter forced when the file cannot be    *)
(* decoded and otherwise drawn from a bounded budget of I/O faults.        *)
(***************************************************************************)
EXTENDS Integers, Sequences, FiniteSets, TLC

\* ---------------------------------------------------------------- bounds
MaxRuns == 2
MaxFaults == 1
MaxFiles == 2
MaxLen == 3

\* ------------------------------------------------------- program constants
Shrink == 8

\* Python None / SQL NULL, outside the range of pixel sizes
None == 0 - 1

\* ------------------------------------------------------------ file names
DotTokens == {".jpg", ".JPG", ".jpeg", ".png", ".PNG", ".txt"}

\* str.lower() on the tokens that carry case
Lower(t) ==
    CASE t = ".JPG" -> ".jpg"
      [] t = ".PNG" -> ".png"
      [] t = "S" -> "s"
      [] t = "T" -> "t"
      [] t = "W" -> "w"
      [] OTHER -> t

\* file.lower().endswith(('.jpg', '.jpeg', '.png'))
EndsWithImageExt(name) ==
    /\ Len(name) > 0
    /\ Lower(name[Len(name)]) \in {".jpg", ".jpeg", ".png"}

\* token index of the last '.' of the name, 0 when there is none
LastDot(name) ==
    LET dots == {i \in 1..Len(name) : name[i] \in DotTokens}
    IN  IF dots = {} THEN 0 ELSE CHOOSE i \in dots : \A j \in dots : j <= i

\* PurePath.suffix: the last dot starts the suffix unless it is the first
\* character of the name (a dot file has no suffix)
suffix(name) ==
    IF LastDot(name) > 1 THEN SubSeq(name, LastDot(name), Len(name)) ELSE <<>>

\* PurePath.stem
stem(name) ==
    IF LastDot(name) > 1 THEN SubSeq(name, 1, LastDot(name) - 1) ELSE name

\* '<tag>' in image_path.stem
Contains(s, tag) == \E i \in 1..Len(s) : s[i] = tag

\* image_path.with_name(f"{image_path.stem}<tag>{image_path.suffix}")
with_tag(p, tag) == [dir |-> p.dir, name |-> stem(p.name) \o <<tag>> \o suffix(p.name)]

new_original_path_of(p) == with_tag(p, "-original")

\* mutant: the resized file is given the -original suffix
resized_path_of_Original(p) == with_tag(p, "-original")

resized_path_of(p) == with_tag(p, "-min")

\* mutant: the stem test is dropped from the candidate filter
IsCandidate_NoStemTest(name) == EndsWithImageExt(name)

\* the candidate filter of process_directory
IsCandidate(name) ==
    /\ EndsWithImageExt(name)
    /\ ~ (Contains(stem(name), "-original") \/ Contains(stem(name), "-min"))

\* ---------------------------------------------------------- file contents
\* A decodable image: id names the initial file its pixels come from, enc
\* counts the re-encodings applied, w/h are the pixel size, fmt the format
\* tag the codec reports.
Img(id, w, h, fmt) == [kind |-> "img", id |-> id, enc |-> 0, w |-> w, h |-> h, fmt |-> fmt]

\* A file that is no image (text, corrupt header)
Data(id) == [kind |-> "data", id |-> id, enc |-> 0, w |-> 0, h |-> 0, fmt |-> "none"]

\* What a failed save leaves behind when it had already opened its target
Garbage == [kind |-> "garbage", id |-> 0, enc |-> 0, w |-> 0, h |-> 0, fmt |-> "none"]

Max(a, b) == IF a >= b THEN a ELSE b

\* mutant: the sizes are divided and not raised to 1
new_size_NoFloor(c) == <<c.w \div Shrink, c.h \div Shrink>>

\* new_size = (max(width // 8, 1), max(height // 8, 1))
new_size(c) == <<Max(c.w \div Shrink, 1), Max(c.h \div Shrink, 1)>>

\* format the encoder writes: explicit for JPEG/PNG sources, else chosen by
\* the extension of the target ("none": unknown extension, save raises)
SaveFormat(fmt, target) ==
    CASE fmt \in {"JPEG", "JPG"} -> "JPEG"
      [] fmt = "PNG" -> "PNG"
      [] OTHER ->
           LET s == suffix(target.name)
           IN  IF Len(s) # 1 THEN "none"
               ELSE IF Lower(s[1]) \in {".jpg", ".jpeg"} THEN "JPEG"
               ELSE IF Lower(s[1]) = ".png" THEN "PNG"
               ELSE "none"

\* img.save(optimized_path, ...): same pixels, re-encoded
Optimized(c, target) ==
    [c EXCEPT !.enc = c.enc + 1, !.fmt = SaveFormat(c.fmt, target)]

\* img.resize(new_size).save(resized_path, ...)
Resized(c, target) ==
    [c EXCEPT !.enc = c.enc + 1, !.fmt = SaveFormat(c.fmt, target),
              !.w = new_size(c)[1], !.h = new_size(c)[2]]

\* ------------------------------------------------------ initial directory
Root == "root"

\* names a child directory of the root may have
DirNames == {"Summer Trip", "2023_Winter!"}

\* the child directories a root may hold: none, or both
ChildSets == {{}, DirNames}

\* directories one level further down, and the child each lies in
NestedDirs == {"Summer Trip/2023_Winter!"}

Parent(d) == "Summer Trip"

\* the characters of a directory's name (subdir.name)
Chars(d) ==
    CASE d = "Summer Trip" -> <<"S", "u", "m", "m", "e", "r", " ", "T", "r", "i", "p">>
      [] d = "2023_Winter!" -> <<"2", "0", "2", "3", "_", "W", "i", "n", "t", "e", "r", "!">>
      [] d = "Summer Trip/2023_Winter!" ->
             <<"2", "0", "2", "3", "_", "W", "i", "n", "t", "e", "r", "!">>
      [] OTHER -> <<"r", "o", "o", "t">>

P(d, n) == [dir |-> d, name |-> n]

\* The files a root may hold before the first run, each with the contents
\* it may have.
Universe ==
    [p \in { P(Root, <<"a", ".jpg">>), P(Root, <<"a", "-original", ".jpg">>),
             P(Root, <<"a", "-min", ".jpg">>), P(Root, <<"b", ".PNG">>),
             P(Root, <<"a", ".txt">>), P(Root, <<".jpg">>),
             P(Root, <<".jpg", "-min">>), P("Summer Trip", <<"a", ".jpg">>) } |->
        CASE p = P(Root, <<"a", ".jpg">>) ->
                 {Img(1, 10, 1, "JPEG"), Img(1, 10, 1, "GIF"), Data(1)}
          [] p = P(Root, <<"a", "-original", ".jpg">>) -> {Img(2, 8, 8, "JPEG")}
          [] p = P(Root, <<"a", "-min", ".jpg">>) -> {Img(3, 2, 2, "JPEG")}
          [] p = P(Root, <<"b", ".PNG">>) -> {Img(4, 17, 24, "PNG"), Data(4)}
          [] p = P(Root, <<"a", ".txt">>) -> {Data(5)}
          [] p = P(Root, <<".jpg">>) -> {Img(6, 1, 1, "JPEG"), Img(6, 1, 1, "GIF")}
          [] p = P(Root, <<".jpg", "-min">>) -> {Data(7)}
          [] OTHER -> {Img(8, 64, 9, "JPEG")}]

InitialTrees ==
    UNION { {t \in [ps -> UNION {Universe[p] : p \in ps}] : \A p \in ps : t[p] \in Universe[p]} :
            ps \in {s \in SUBSET DOMAIN Universe : Cardinality(s) <= MaxFiles} }

\* ------------------------------------------------------------------ state
VARIABLES
    posix,              \* os.rename replaces an existing target (POSIX) or raises (Windows)
    children,           \* names of the immediate child directories of the root
    db,                 \* images.db exists
    text,               \* a text handed to slugify
    slug,               \* slugify(text)
    reslug,             \* slugify(slug)
    fs,                 \* path -> contents, for the files that exist
    fs0,                \* fs before the first run
    pc,                 \* position of the program
    run,                \* number of runs started
    faults,             \* I/O faults injected so far
    catalog,            \* rows of table images, in insertion order
    catBase,            \* number of rows when the current run started
    photos,             \* photos_list
    series,             \* series_list
    manifest,           \* contents of photos.json
    jsonWrites,         \* completed writes of photos.json in the current run
    todo,               \* directories os.walk has still to list
    pending,            \* names of the listed directory not yet visited
    curdir,             \* directory os.walk is in
    image_path,
    img_format,
    original_details,
    optimized_details,
    resized_details,
    abortAt,            \* step at which the current pipeline aborted
    atStart,            \* photos, catalog and source contents when the pipeline started
    invoked,            \* paths the pipeline was invoked on in the current run
    written,            \* paths renamed to or saved to in the current run
    prevRecorded        \* source paths recorded by earlier runs

vars == <<posix, children, db, text, slug, reslug, fs, fs0, pc, run, faults, catalog, catBase, photos, series,
          manifest, jsonWrites, todo, pending, curdir, image_path, img_format,
          original_details, optimized_details, resized_details, abortAt, atStart,
          invoked, written, prevRecorded>>

walkVars == <<todo, pending, curdir>>

pipeVars == <<image_path, img_format, original_details, optimized_details,
              resized_details, abortAt, atStart>>

treeVars == <<posix, children, fs0, text, slug, reslug>>

envVars == <<treeVars, db>>

NoPath == P("", <<>>)

NoStart == [photos |-> <<>>, catalog |-> <<>>, src |-> Garbage]

NoManifest == [state |-> "absent", photos |-> <<>>, series |-> <<>>]

Exists(p) == p \in DOMAIN fs

\* everything but the directory tree, the program position and the text
Fresh ==
    /\ db = FALSE
    /\ slug = <<>>
    /\ reslug = <<>>
    /\ run = 0
    /\ faults = 0
    /\ catalog = <<>>
    /\ catBase = 0
    /\ photos = <<>>
    /\ series = <<>>
    /\ manifest = NoManifest
    /\ jsonWrites = 0
    /\ todo = <<>>
    /\ pending = {}
    /\ curdir = ""
    /\ image_path = NoPath
    /\ img_format = "none"
    /\ original_details = <<>>
    /\ optimized_details = <<>>
    /\ resized_details = <<>>
    /\ abortAt = "none"
    /\ atStart = NoStart
    /\ invoked = <<>>
    /\ written = {}
    /\ prevRecorded = {}

Init ==
    /\ posix \in BOOLEAN
    /\ children \in ChildSets
    /\ fs \in {t \in InitialTrees : \A p \in DOMAIN t : p.dir = Root \/ p.dir \in children}
    /\ fs0 = fs
    /\ pc = "start"
    /\ text = <<>>
    /\ Fresh

\* ------------------------------------------------------------- I/O faults
\* Outcomes of a call that raises when must holds and may otherwise raise
\* on an I/O fault, while the budget lasts.
Outcomes(must) ==
    IF must THEN {FALSE} ELSE IF faults < MaxFaults THEN {TRUE, FALSE} ELSE {TRUE}

Charge(ok, must) == IF ~ok /\ ~must THEN faults + 1 ELSE faults

Range(s) == {s[i] : i \in 1..Len(s)}

Perms(S) == {s \in [1..Cardinality(S) -> S] : Range(s) = S}

Write(p, c) == [q \in DOMAIN fs \cup {p} |-> IF q = p THEN c ELSE fs[q]]

Decodable(p) == Exists(p) /\ fs[p].kind = "img"

\* optimize_image has returned: its locals are gone
Returned ==
    /\ image_path' = NoPath
    /\ img_format' = "none"
    /\ original_details' = <<>>
    /\ optimized_details' = <<>>
    /\ resized_details' = <<>>
    /\ abortAt' = "none"
    /\ atStart' = NoStart

\* ---------------------------------------------------------------- mainsort
RunOver == pc \in {"start", "done", "halted", "InitCrashed", "InsertCrashed"}

\* mutant: the catalog is initialised before the path is tested
InvalidRoot_InitFirst ==
    /\ RunOver
    /\ run < MaxRuns
    /\ run' = run + 1
    /\ pc' = "halted"
    /\ db' = TRUE
    /\ UNCHANGED <<fs, faults, catalog, catBase, photos, series, manifest, jsonWrites,
                   invoked, written, prevRecorded>>
    /\ UNCHANGED <<walkVars, treeVars>>
    /\ Returned

\* mainsort: the path typed is no directory
InvalidRoot ==
    /\ RunOver
    /\ run < MaxRuns
    /\ run' = run + 1
    /\ pc' = "halted"
    /\ UNCHANGED <<fs, faults, catalog, catBase, photos, series, manifest, jsonWrites,
                   invoked, written, prevRecorded>>
    /\ UNCHANGED <<walkVars, envVars>>
    /\ Returned

\* mainsort up to the call of process_directory: initialize_database,
\* photos_list = []
Mainsort ==
    /\ RunOver
    /\ run < MaxRuns
    /\ run' = run + 1
    /\ \E ok \in Outcomes(FALSE) :
         /\ faults' = Charge(ok, FALSE)
         /\ pc' = IF ok THEN "walk" ELSE "InitCrashed"
         /\ db' = (db \/ ok)
    /\ photos' = <<>>
    /\ series' = <<>>
    /\ catBase' = Len(catalog)
    /\ jsonWrites' = 0
    /\ todo' = <<Root>>
    /\ pending' = {}
    /\ curdir' = ""
    /\ invoked' = <<>>
    /\ written' = {}
    /\ prevRecorded' = prevRecorded \cup {photos[i].optimized.path : i \in 1..Len(photos)}
    /\ UNCHANGED <<fs, catalog, manifest, treeVars>>
    /\ Returned

\* -------------------------------------------------------- process_directory
Walking == pc \in {"walk", "Recorded", "Aborted"}

\* the directories directly in directory d
\* the directories one level below a child directory: "Summer Trip" holds one
nested == {d \in NestedDirs : Parent(d) \in children}

Subdirs(d) ==
    IF d = Root THEN children ELSE {n \in nested : Parent(n) = d}

\* os.walk lists the next directory: its files are snapshotted, its
\* subdirectories queued
WalkDir ==
    /\ Walking
    /\ pending = {}
    /\ todo # <<>>
    /\ curdir' = Head(todo)
    /\ pending' = {p.name : p \in {q \in DOMAIN fs : q.dir = Head(todo)}}
    /\ \E sub \in Perms(Subdirs(Head(todo))) :
         todo' = sub \o Tail(todo)
    /\ pc' = "walk"
    /\ UNCHANGED <<fs, run, faults, catalog, catBase, photos, series, manifest,
                   jsonWrites, invoked, written, prevRecorded, envVars>>
    /\ Returned

\* a listed file fails the extension test or the stem test
SkipFile ==
    /\ Walking
    /\ \E f \in pending :
         /\ ~IsCandidate(f)
         /\ pending' = pending \ {f}
    /\ pc' = "walk"
    /\ UNCHANGED <<fs, run, faults, catalog, catBase, photos, series, manifest,
                   jsonWrites, invoked, written, prevRecorded, todo, curdir,
                   envVars>>
    /\ Returned

\* optimize_image(image_path, ...) is called on a candidate
StartPipeline ==
    /\ Walking
    /\ \E f \in pending :
         /\ IsCandidate(f)
         /\ pending' = pending \ {f}
         /\ image_path' = P(curdir, f)
         /\ invoked' = Append(invoked, P(curdir, f))
         /\ atStart' = [photos |-> photos, catalog |-> catalog,
                        src |-> IF Exists(P(curdir, f)) THEN fs[P(curdir, f)] ELSE Garbage]
    /\ pc' = "Discovered"
    /\ img_format' = "none"
    /\ original_details' = <<>>
    /\ optimized_details' = <<>>
    /\ resized_details' = <<>>
    /\ abortAt' = "none"
    /\ UNCHANGED <<fs, run, faults, catalog, catBase, photos, series, manifest,
                   jsonWrites, written, prevRecorded, todo, curdir, envVars>>

\* os.walk is exhausted
WalkEnd ==
    /\ Walking
    /\ pending = {}
    /\ todo = <<>>
    /\ pc' = "walked"
    /\ UNCHANGED <<fs, run, faults, catalog, catBase, photos, series, manifest,
                   jsonWrites, invoked, written, prevRecorded, walkVars, envVars>>
    /\ Returned

\* ------------------------------------------------------------ optimize_image
new_original_path == new_original_path_of(image_path)

optimized_path == image_path

resized_path == resized_path_of(image_path)

\* os.rename raises: the source is gone, or the target exists on a platform
\* where rename does not replace
RenameRaises(src, dst) == ~Exists(src) \/ (Exists(dst) /\ ~posix)

\* os.rename(src, dst) when it does not raise
os_rename(src, dst) ==
    [q \in (DOMAIN fs \ {src}) \cup {dst} |-> IF q = dst THEN fs[src] ELSE fs[q]]

\* what stays unchanged in every step of the pipeline before Recorded
PipeFrame ==
    /\ UNCHANGED <<run, catalog, catBase, photos, series, manifest, jsonWrites,
                   invoked, prevRecorded, walkVars, image_path, atStart, envVars>>

\* Discovered -> Renamed
Rename ==
    /\ pc = "Discovered"
    /\ \E ok \in Outcomes(RenameRaises(image_path, new_original_path)) :
         /\ faults' = Charge(ok, RenameRaises(image_path, new_original_path))
         /\ IF ok
            THEN /\ fs' = os_rename(image_path, new_original_path)
                 /\ written' = written \cup {new_original_path}
                 /\ pc' = "Renamed"
                 /\ abortAt' = abortAt
            ELSE /\ pc' = "Aborted"
                 /\ abortAt' = "rename"
                 /\ UNCHANGED <<fs, written>>
    /\ UNCHANGED <<img_format, original_details, optimized_details, resized_details>>
    /\ PipeFrame

\* log_image_details(path, ...) when it raises nothing: the size group
log_image_details(p) == <<fs[p].w, fs[p].h>>

\* a call of log_image_details on p: its result is {} after any exception
Inspect(p, details) ==
    \E ok \in Outcomes(~Decodable(p)) :
        /\ faults' = Charge(ok, ~Decodable(p))
        /\ details' = IF ok THEN log_image_details(p) ELSE <<>>

\* mutant: a failed inspection of the renamed original aborts the pipeline
InspectOriginal_Fatal ==
    /\ pc = "Renamed"
    /\ Inspect(new_original_path, original_details)
    /\ pc' = IF original_details' = <<>> THEN "Aborted" ELSE "OriginalInspected"
    /\ UNCHANGED <<fs, written, img_format, optimized_details, resized_details, abortAt>>
    /\ PipeFrame

\* Renamed -> OriginalInspected
InspectOriginal ==
    /\ pc = "Renamed"
    /\ Inspect(new_original_path, original_details)
    /\ pc' = "OriginalInspected"
    /\ UNCHANGED <<fs, written, img_format, optimized_details, resized_details, abortAt>>
    /\ PipeFrame

\* OriginalInspected -> FormatDetected
DetectFormat ==
    /\ pc = "OriginalInspected"
    /\ \E ok \in Outcomes(~Decodable(new_original_path)) :
         /\ faults' = Charge(ok, ~Decodable(new_original_path))
         /\ IF ok
            THEN /\ img_format' = fs[new_original_path].fmt
                 /\ pc' = "FormatDetected"
                 /\ abortAt' = abortAt
            ELSE /\ pc' = "Aborted"
                 /\ abortAt' = "format"
                 /\ img_format' = img_format
    /\ UNCHANGED <<fs, written, original_details, optimized_details, resized_details>>
    /\ PipeFrame

\* the encoder cannot even start: source undecodable or no encoder for the target
SaveRaises(target) ==
    ~Decodable(new_original_path) \/ SaveFormat(img_format, target) = "none"

\* mutant: a save that raises renames the original back to the source name
FailedSave_Rollback(target, must) ==
    /\ fs' = [q \in (DOMAIN fs \ {new_original_path, target}) \cup {image_path} |->
                IF q = image_path THEN fs[new_original_path] ELSE fs[q]]
    /\ written' = written

\* a save that raises leaves its target alone, or truncated when the
\* failure came after the target was opened
FailedSave(target, must) ==
    \/ UNCHANGED <<fs, written>>
    \/ /\ ~must
       /\ fs' = Write(target, Garbage)
       /\ written' = written \cup {target}

\* FormatDetected -> Optimized
Optimize ==
    /\ pc = "FormatDetected"
    /\ \E ok \in Outcomes(SaveRaises(optimized_path)) :
         /\ faults' = Charge(ok, SaveRaises(optimized_path))
         /\ IF ok
            THEN /\ fs' = Write(optimized_path, Optimized(fs[new_original_path], optimized_path))
                 /\ written' = written \cup {optimized_path}
                 /\ pc' = "Optimized"
                 /\ abortAt' = abortAt
            ELSE /\ FailedSave(optimized_path, SaveRaises(optimized_path))
                 /\ pc' = "Aborted"
                 /\ abortAt' = "optimize"
    /\ UNCHANGED <<img_format, original_details, optimized_details, resized_details>>
    /\ PipeFrame

\* Optimized -> OptimizedInspected
InspectOptimized ==
    /\ pc = "Optimized"
    /\ Inspect(optimized_path, optimized_details)
    /\ pc' = "OptimizedInspected"
    /\ UNCHANGED <<fs, written, img_format, original_details, resized_details, abortAt>>
    /\ PipeFrame

\* mutant: a failed resize is logged and the pipeline goes on
Resize_NoAbort ==
    /\ pc = "OptimizedInspected"
    /\ \E ok \in Outcomes(SaveRaises(resized_path)) :
         /\ faults' = Charge(ok, SaveRaises(resized_path))
         /\ IF ok
            THEN /\ fs' = Write(resized_path, Resized(fs[new_original_path], resized_path))
                 /\ written' = written \cup {resized_path}
            ELSE FailedSave(resized_path, SaveRaises(resized_path))
    /\ pc' = "Resized"
    /\ UNCHANGED <<img_format, original_details, optimized_details, resized_details, abortAt>>
    /\ PipeFrame

\* OptimizedInspected -> Resized
Resize ==
    /\ pc = "OptimizedInspected"
    /\ \E ok \in Outcomes(SaveRaises(resized_path)) :
         /\ faults' = Charge(ok, SaveRaises(resized_path))
         /\ IF ok
            THEN /\ fs' = Write(resized_path, Resized(fs[new_original_path], resized_path))
                 /\ written' = written \cup {resized_path}
                 /\ pc' = "Resized"
                 /\ abortAt' = abortAt
            ELSE /\ FailedSave(resized_path, SaveRaises(resized_path))
                 /\ pc' = "Aborted"
                 /\ abortAt' = "resize"
    /\ UNCHANGED <<img_format, original_details, optimized_details, resized_details>>
    /\ PipeFrame

\* Resized -> ResizedInspected
InspectResized ==
    /\ pc = "Resized"
    /\ Inspect(resized_path, resized_details)
    /\ pc' = "ResizedInspected"
    /\ UNCHANGED <<fs, written, img_format, original_details, optimized_details, abortAt>>
    /\ PipeFrame

\* details.get("size", {}).get(key)
Get(details, k) == IF details = <<>> THEN None ELSE details[k]

image_record ==
    [original |-> [path |-> new_original_path, size |-> original_details],
     optimized |-> [path |-> optimized_path, size |-> optimized_details],
     min |-> [path |-> resized_path, size |-> resized_details]]

db_image_record ==
    [original_name |-> new_original_path.name,
     optimized_name |-> optimized_path.name,
     resized_name |-> resized_path.name,
     original_width |-> Get(original_details, 1),
     original_height |-> Get(original_details, 2),
     optimized_width |-> Get(optimized_details, 1),
     optimized_height |-> Get(optimized_details, 2),
     resized_width |-> Get(resized_details, 1),
     resized_height |-> Get(resized_details, 2),
     location |-> image_path]

\* insert_into_database(db_path, row) when it raises nothing
insert_into_database(row) == Append(catalog, row)

\* mutant: the record is put at the head of the list
Record_Prepend ==
    /\ pc = "ResizedInspected"
    /\ photos' = <<image_record>> \o photos
    /\ \E ok \in Outcomes(FALSE) :
         /\ faults' = Charge(ok, FALSE)
         /\ IF ok
            THEN /\ catalog' = insert_into_database(db_image_record)
                 /\ pc' = "Recorded"
            ELSE /\ catalog' = catalog
                 /\ pc' = "InsertCrashed"
    /\ UNCHANGED <<fs, run, catBase, series, manifest, jsonWrites, invoked, written,
                   prevRecorded, walkVars, pipeVars, envVars>>

\* ResizedInspected -> Recorded: the record is appended, then the row is
\* inserted; an exception of the insert is caught nowhere and ends the run
Record ==
    /\ pc = "ResizedInspected"
    /\ photos' = Append(photos, image_record)
    /\ \E ok \in Outcomes(FALSE) :
         /\ faults' = Charge(ok, FALSE)
         /\ IF ok
            THEN /\ catalog' = insert_into_database(db_image_record)
                 /\ pc' = "Recorded"
            ELSE /\ catalog' = catalog
                 /\ pc' = "InsertCrashed"
    /\ UNCHANGED <<fs, run, catBase, series, manifest, jsonWrites, invoked, written,
                   prevRecorded, walkVars, pipeVars, envVars>>

\* ------------------------------------------------------------------ slugify
Letters ==
    {"a", "b", "c", "d", "e", "f", "g", "h", "i", "j", "k", "l", "m", "n", "o", "p", "q",
     "r", "s", "t", "u", "v", "w", "x", "y", "z"}

UpperLetters == {"S", "T", "W"}

Digits == {"0", "1", "2", "3", "4", "5", "6", "7", "8", "9"}

\* \w on ASCII text
IsWord(c) == c \in Letters \cup UpperLetters \cup Digits \cup {"_"}

\* \s on ASCII text
IsSpace(c) == c \in {" ", "tab"}

\* unicodedata.normalize('NFKD', c).encode('ascii', 'ignore').decode('ascii') for
\* one character: "e-acute" decomposes into e and a combining accent that is
\* dropped, "sharp-s" has no ASCII form, "nbsp" decomposes into a space
ToAsciiChar(c) ==
    CASE c = "e-acute" -> <<"e">>
      [] c = "sharp-s" -> <<>>
      [] c = "nbsp" -> <<" ">>
      [] OTHER -> <<c>>

RECURSIVE ToAscii(_)
ToAscii(v) == IF v = <<>> THEN <<>> ELSE ToAsciiChar(Head(v)) \o ToAscii(Tail(v))

\* re.sub(r'[^\w\s-]', '', value)
RemoveOther(v) == SelectSeq(v, LAMBDA c : IsWord(c) \/ IsSpace(c) \/ c = "-")

RECURSIVE LStrip(_)
LStrip(v) == IF v # <<>> /\ IsSpace(Head(v)) THEN LStrip(Tail(v)) ELSE v

RECURSIVE RStrip(_)
RStrip(v) ==
    IF v # <<>> /\ IsSpace(v[Len(v)]) THEN RStrip(SubSeq(v, 1, Len(v) - 1)) ELSE v

\* str.strip()
Strip(v) == RStrip(LStrip(v))

\* str.lower()
LowerSeq(v) == [i \in 1..Len(v) |-> Lower(v[i])]

IsSep(c) == c = "-" \/ IsSpace(c)

RECURSIVE DropSeps(_)
DropSeps(v) == IF v # <<>> /\ IsSep(Head(v)) THEN DropSeps(Tail(v)) ELSE v

\* re.sub(r'[-\s]+', '-', value)
RECURSIVE Collapse(_)
Collapse(v) ==
    IF v = <<>> THEN <<>>
    ELSE IF IsSep(Head(v)) THEN <<"-">> \o Collapse(DropSeps(Tail(v)))
    ELSE <<Head(v)>> \o Collapse(Tail(v))

\* mutant: punctuation is kept
slugify_KeepOther(value) == Collapse(LowerSeq(Strip(ToAscii(value))))

\* mutant: runs are collapsed before the other characters are removed
slugify_CollapseFirst(value) == LowerSeq(Strip(RemoveOther(Collapse(ToAscii(value)))))

slugify(value) == Collapse(LowerSeq(Strip(RemoveOther(ToAscii(value)))))

\* ------------------------------------------------------------ collect_series
\* mutant: the listing also holds the directories further down
iterdir_Recursive ==
    {[is_dir |-> FALSE, file |-> q.name] : q \in {r \in DOMAIN fs : r.dir = Root}}
        \cup {[is_dir |-> TRUE, dir |-> d] : d \in children \cup nested}

\* base_dir.iterdir(): the entries directly in the root, files and directories
iterdir ==
    {[is_dir |-> FALSE, file |-> q.name] : q \in {r \in DOMAIN fs : r.dir = Root}}
        \cup {[is_dir |-> TRUE, dir |-> d] : d \in children}

series_record(d) ==
    [seriesName |-> d, slug |-> slugify(Chars(d)), description |-> d, intentPurpose |-> d,
     year |-> 2024, frontPage |-> FALSE, keywords |-> <<>>]

\* the entries of iterdir with subdir.is_dir(), in listing order
CollectSeries ==
    /\ pc = "walked"
    /\ \E order \in Perms({e.dir : e \in {x \in iterdir : x.is_dir}}) :
         series' = [i \in 1..Len(order) |-> series_record(order[i])]
    /\ pc' = "collected"
    /\ UNCHANGED <<fs, run, faults, catalog, catBase, photos, manifest, jsonWrites,
                   invoked, written, prevRecorded, walkVars, pipeVars, envVars>>

\* ---------------------------------------------------------- save_photos_json
save_photos_json ==
    /\ pc = "collected"
    /\ \E ok \in Outcomes(FALSE) :
         /\ faults' = Charge(ok, FALSE)
         /\ IF ok
            THEN /\ manifest' = [state |-> "written", photos |-> photos, series |-> series]
                 /\ jsonWrites' = jsonWrites + 1
            ELSE /\ manifest' \in {manifest, [state |-> "partial", photos |-> <<>>, series |-> <<>>]}
                 /\ jsonWrites' = jsonWrites
    /\ pc' = "done"
    /\ UNCHANGED <<fs, run, catalog, catBase, photos, series, invoked, written,
                   prevRecorded, walkVars, pipeVars, envVars>>

\* ----------------------------------------------------------- specification
Next ==
    \/ InvalidRoot
    \/ Mainsort
    \/ WalkDir
    \/ SkipFile
    \/ StartPipeline
    \/ WalkEnd
    \/ Rename
    \/ InspectOriginal
    \/ DetectFormat
    \/ Optimize
    \/ InspectOptimized
    \/ Resize
    \/ InspectResized
    \/ Record
    \/ CollectSeries
    \/ save_photos_json

Spec == Init /\ [][Next]_vars

\* One run of the program on the initial directory
Pipeline ==
    \/ WalkDir
    \/ SkipFile
    \/ StartPipeline
    \/ WalkEnd
    \/ Rename
    \/ InspectOriginal
    \/ DetectFormat
    \/ Optimize
    \/ InspectOptimized
    \/ Resize
    \/ InspectResized
    \/ Record
    \/ CollectSeries
    \/ save_photos_json

NextPass ==
    \/ run = 0 /\ InvalidRoot
    \/ run = 0 /\ Mainsort
    \/ Pipeline

SpecPass == Init /\ [][NextPass]_vars

\* slugify applied to a text, then to its own result
SlugAlphabet == {"T", "r", "2", "_", "-", " ", "tab", "!", "e-acute", "sharp-s", "nbsp"}

Texts == UNION {[1..n -> SlugAlphabet] : n \in 0..MaxLen}

InitSlug ==
    /\ posix = TRUE
    /\ children = {}
    /\ fs = <<>>
    /\ fs0 = fs
    /\ pc = "text"
    /\ text \in Texts
    /\ Fresh

Slugify ==
    /\ pc = "text"
    /\ slug' = slugify(text)
    /\ pc' = "slugged"
    /\ UNCHANGED <<posix, children, db, text, reslug, fs, fs0, run, faults, catalog,
                   catBase, photos, series, manifest, jsonWrites, walkVars, pipeVars,
                   invoked, written, prevRecorded>>

Reslugify ==
    /\ pc = "slugged"
    /\ reslug' = slugify(slug)
    /\ pc' = "reslugged"
    /\ UNCHANGED <<posix, children, db, text, slug, fs, fs0, run, faults, catalog,
                   catBase, photos, series, manifest, jsonWrites, walkVars, pipeVars,
                   invoked, written, prevRecorded>>

NextSlug ==
    \/ Slugify
    \/ Reslugify

SpecSlug == InitSlug /\ [][NextSlug]_vars

TypeOK ==
    /\ pc \in {"start", "halted", "InitCrashed", "walk", "Discovered", "Renamed",
               "OriginalInspected", "FormatDetected", "Optimized", "OptimizedInspected",
               "Resized", "ResizedInspected", "Recorded", "Aborted", "InsertCrashed",
               "walked", "collected", "done", "text", "slugged", "reslugged"}
    /\ run \in 0..MaxRuns
    /\ faults \in 0..MaxFaults

\* ------------------------------------------------------------------ claims
InPipeline ==
    pc \in {"Discovered", "Renamed", "OriginalInspected", "FormatDetected", "Optimized",
            "OptimizedInspected", "Resized", "ResizedInspected"}

\* the step that ends an execution of the pipeline
PipelineEnds == InPipeline /\ pc' \in {"Recorded", "Aborted", "InsertCrashed"}

RecordAppended == Len(photos') = Len(photos) + 1

RowInserted == Len(catalog') = Len(catalog) + 1

\* path p holds an image that was renamed to or saved to p in this run
ProducedIn(f, w, p) == p \in w /\ p \in DOMAIN f /\ f[p].kind = "img"

AllProducedIn(f, w) ==
    /\ ProducedIn(f, w, new_original_path)
    /\ ProducedIn(f, w, optimized_path)
    /\ ProducedIn(f, w, resized_path)

AllInspected ==
    original_details # <<>> /\ optimized_details # <<>> /\ resized_details # <<>>

Candidates0 == {p \in DOMAIN fs0 : IsCandidate(p.name)}

\* C1: in a run that follows an earlier run, the original, optimized and -min
\* files of every image the earlier run recorded keep their content: the
\* rename step finds the -original name taken and aborts.
C1_SecondPassKeepsArtifacts ==
    [][\A p \in prevRecorded :
         \A q \in {p, new_original_path_of(p), resized_path_of(p)} :
            q \in DOMAIN fs => (q \in DOMAIN fs' /\ fs'[q] = fs[q])]_vars

\* C2 as stated: an execution of the pipeline inserts a row (and appends a
\* record) if and only if all three artifacts were produced and all three
\* inspections succeeded.
C2_RowIffProducedAndInspected ==
    [][PipelineEnds =>
         /\ RowInserted <=> (AllProducedIn(fs', written') /\ AllInspected)
         /\ RecordAppended <=> RowInserted]_vars

\* C2 amended: an execution of the pipeline appends a record if and only if
\* all three artifacts were produced, whatever the inspections returned; a
\* row is inserted only together with the record; an execution that appends
\* no record leaves accumulator and catalog as they were.
C2_RecordIffProduced ==
    [][PipelineEnds =>
         /\ RecordAppended <=> AllProducedIn(fs', written')
         /\ RowInserted => RecordAppended
         /\ RecordAppended \/ photos' = photos
         /\ RowInserted \/ catalog' = catalog]_vars

\* C2 witness: a row was inserted although an inspection had failed
C2_Witness ==
    /\ pc = "Recorded"
    /\ Len(catalog) = Len(atStart.catalog) + 1
    /\ ~AllInspected

\* C3: a run that started its walk only ends after the walker has visited
\* every listed file and every directory and the manifest step was reached;
\* no failure inside a pipeline ends it earlier.
C3_NoPipelineErrorIsFatal ==
    (pc \in {"done", "InsertCrashed"}) =>
        /\ pc = "done"
        /\ pending = {}
        /\ todo = <<>>

\* C4: whenever no pipeline step is in progress, the accumulator holds as
\* many records as rows were inserted in this run, and the k-th record and
\* the k-th row of the run are about the same source image.
C4_AccumulatorMatchesCatalog ==
    ~InPipeline =>
        /\ Len(photos) = Len(catalog) - catBase
        /\ \A k \in 1..Len(photos) :
             /\ photos[k].optimized.path = catalog[catBase + k].location
             /\ photos[k].original.path.name = catalog[catBase + k].original_name
             /\ photos[k].min.path.name = catalog[catBase + k].resized_name

\* C5: first run, empty catalog, one candidate in the root: once its pipeline
\* is Recorded there is one row and one record, the three artifacts exist
\* under <stem>-original, <stem>, <stem>-min with the source's suffix, the
\* source's content is at the -original path and no longer at the source path.
C5_OneImageRecorded ==
    (pc = "Recorded" /\ run = 1 /\ Cardinality(Candidates0) = 1) =>
        /\ Len(catalog) = 1
        /\ Len(photos) = 1
        /\ image_path \in Candidates0
        /\ Exists(new_original_path) /\ Exists(optimized_path) /\ Exists(resized_path)
        /\ new_original_path.name =
              stem(image_path.name) \o <<"-original">> \o suffix(image_path.name)
        /\ resized_path.name =
              stem(image_path.name) \o <<"-min">> \o suffix(image_path.name)
        /\ fs[new_original_path] = fs0[image_path]
        /\ fs[image_path] # fs0[image_path]

C5_Witness ==
    /\ pc = "Recorded"
    /\ run = 1
    /\ Cardinality(Candidates0) = 1
    /\ image_path.dir = Root

\* C6: when the -original name is taken, the rename step aborts the pipeline
\* and changes nothing: files, accumulator and catalog stay as they are.
C6_RenameCollisionAborts ==
    [][(pc = "Discovered" /\ Exists(new_original_path)) =>
         /\ pc' = "Aborted"
         /\ fs' = fs
         /\ photos' = photos
         /\ catalog' = catalog]_vars

\* C7: after an abort at format detection, optimize or resize, the renamed
\* original is in place with the source's content, the source path does not
\* hold the source's content again, an optimized file that was written is
\* still there, and accumulator and catalog are as at the pipeline's start.
C7_AbortKeepsFilesRecordsNothing ==
    (pc = "Aborted" /\ abortAt \in {"format", "optimize", "resize"}) =>
        /\ photos = atStart.photos
        /\ catalog = atStart.catalog
        /\ Exists(new_original_path)
        /\ fs[new_original_path] = atStart.src
        /\ Exists(image_path) => fs[image_path] # atStart.src
        /\ abortAt = "resize" =>
             /\ Exists(optimized_path)
             /\ fs[optimized_path] = Optimized(atStart.src, optimized_path)

C7_Witness ==
    /\ pc = "Aborted"
    /\ abortAt = "resize"
    /\ Exists(optimized_path)
    /\ Exists(new_original_path)

\* C8: an inspection never aborts the pipeline, whatever it returns, and the
\* record and the row that follow carry an empty size group (NULL columns)
\* exactly for the artifacts whose inspection failed.
C8_InspectorFailureIsLocal ==
    [][/\ pc = "Renamed" => pc' = "OriginalInspected"
       /\ pc = "Optimized" => pc' = "OptimizedInspected"
       /\ pc = "Resized" => pc' = "ResizedInspected"
       /\ pc = "ResizedInspected" =>
            /\ pc' \in {"Recorded", "InsertCrashed"}
            /\ RecordAppended
            /\ photos'[Len(photos')].original.size = original_details
            /\ photos'[Len(photos')].optimized.size = optimized_details
            /\ photos'[Len(photos')].min.size = resized_details
            /\ pc' = "Recorded" =>
                 /\ RowInserted
                 /\ (catalog'[Len(catalog')].original_width = None) <=> (original_details = <<>>)
                 /\ (catalog'[Len(catalog')].optimized_width = None) <=> (optimized_details = <<>>)
                 /\ (catalog'[Len(catalog')].resized_width = None) <=> (resized_details = <<>>)]_vars

\* C8 witness: Recorded although the inspection of the renamed original failed
C8_Witness ==
    /\ pc = "Recorded"
    /\ original_details = <<>>
    /\ photos[Len(photos)].original.size = <<>>
    /\ photos[Len(photos)].optimized.size # <<>>

\* C9: a file whose name does not end in .jpg, .jpeg or .png is never
\* renamed, overwritten or deleted, and never becomes a pipeline's source.
C9_NonImageUntouched ==
    [][/\ \A p \in DOMAIN fs :
            ~EndsWithImageExt(p.name) => (p \in DOMAIN fs' /\ fs'[p] = fs[p])
       /\ EndsWithImageExt(image_path'.name) \/ image_path' = NoPath]_vars

\* C10: within a run the pipeline starts at most once per path and never on
\* a path renamed to or saved to earlier in the run; the paths it starts on
\* carry neither -original nor -min in their stem.
C10_OncePerPathNeverOnWritten ==
    [][(pc # "Discovered" /\ pc' = "Discovered") =>
         /\ image_path' \notin Range(invoked)
         /\ image_path' \notin written
         /\ ~Contains(stem(image_path'.name), "-original")
         /\ ~Contains(stem(image_path'.name), "-min")]_vars

\* C10 witness: a second pipeline starts after the first one wrote its files
C10_Witness ==
    /\ pc = "Discovered"
    /\ Len(invoked) = 2
    /\ invoked[1] \in written
    /\ resized_path_of(invoked[1]) \in written

\* the run is over: mainsort returned or an exception left it
RunEnded == pc \in {"done", "InsertCrashed", "InitCrashed"}

\* C11: in a run on a valid root the manifest is written only after the walker
\* and the series collector are through, and when the run is over it was
\* written exactly once, with exactly the records of this run.
C11_ManifestOnceWithRecorded ==
    /\ manifest # NoManifest => pc = "done" /\ pending = {} /\ todo = <<>>
    /\ RunEnded =>
         /\ jsonWrites = 1
         /\ manifest = [state |-> "written", photos |-> photos, series |-> series]
         /\ Len(photos) = Len(catalog) - catBase

\* C12: a run on a path that is no directory halts at once: no catalog is
\* created or opened, no file is renamed or written, the walker and the
\* series collector do nothing and no manifest is written.
C12_InvalidRootHaltsFirst ==
    [][pc' = "halted" /\ run' # run =>
         /\ UNCHANGED <<fs, db, catalog, manifest, jsonWrites, photos, series, invoked,
                        written, faults>>
         /\ todo' = <<>> /\ pending' = {} /\ image_path' = NoPath]_vars

C12_Witness ==
    /\ pc = "halted"
    /\ Candidates0 # {}
    /\ children # {}
    /\ ~db /\ fs = fs0 /\ manifest = NoManifest /\ series = <<>>

\* the resized file of the current pipeline execution has been written
ResizedWritten == pc \in {"Resized", "ResizedInspected", "Recorded"}

\* C13: the resized file is made from the pixels of the renamed original, not
\* of the optimized file, and an original of W x H pixels gives a resized
\* file of max(1, W div 8) x max(1, H div 8) pixels; no side is 0, 1 x 1
\* gives 1 x 1 and 10 x 1 gives 1 x 1.
C13_ResizedDimensions ==
    ResizedWritten =>
        LET o == fs[new_original_path]
            m == fs[resized_path]
        IN  /\ o.kind = "img" /\ m.kind = "img"
            /\ o.w >= 1 /\ o.h >= 1
            /\ m.id = o.id /\ m.enc = o.enc + 1
            /\ m.w = (IF o.w \div 8 >= 1 THEN o.w \div 8 ELSE 1)
            /\ m.h = (IF o.h \div 8 >= 1 THEN o.h \div 8 ELSE 1)
            /\ m.w >= 1 /\ m.h >= 1
            /\ (o.w = 1 /\ o.h = 1 => m.w = 1 /\ m.h = 1)
            /\ (o.w = 10 /\ o.h = 1 => m.w = 1 /\ m.h = 1)
            /\ fs[optimized_path].enc = o.enc + 1

C13_Witness ==
    /\ pc = "Recorded"
    /\ fs[new_original_path].w = 10 /\ fs[new_original_path].h = 1
    /\ fs[resized_path].w = 1 /\ fs[resized_path].h = 1

\* characters a slug may hold according to the statement: a-z, 0-9, hyphen
SlugChars == Letters \cup Digits \cup {"-"}

\* C14 as stated: the result of slugify holds only characters of a-z, 0-9 and
\* the hyphen.
C14_SlugOnlyLowerDigitsHyphen ==
    pc \in {"slugged", "reslugged"} => \A i \in 1..Len(slug) : slug[i] \in SlugChars

\* C14 amended: the result of slugify holds only characters of a-z, 0-9, the
\* underscore and the hyphen.
C14_SlugOnlyWordCharsOrHyphen ==
    pc \in {"slugged", "reslugged"} =>
        \A i \in 1..Len(slug) : slug[i] \in SlugChars \cup {"_"}

C14_Witness ==
    /\ pc = "slugged"
    /\ text = <<"T", "_", "!">>
    /\ slug = <<"t", "_">>

\* C15: slugify applied to its own result gives that result again.
C15_SlugifyIdempotent == pc = "reslugged" => reslug = slug

C15_Witness ==
    /\ pc = "reslugged"
    /\ text = <<"-", "!", "-">>
    /\ slug = <<"-">>
    /\ reslug = slug

\* the series collector has run
SeriesCollected == pc \in {"collected", "done"}

\* C16: the series collector yields one record per directory directly in the
\* root, none for a file and none for a directory further down, whatever
\* images were processed; its slug is slugify of the directory's name:
\* summer-trip for "Summer Trip", 2023_winter for "2023_Winter!".
C16_OneSeriesPerChildDirectory ==
    SeriesCollected =>
        /\ Len(series) = Cardinality(children)
        /\ {series[i].seriesName : i \in 1..Len(series)} = children
        /\ \A i \in 1..Len(series) :
             /\ series[i].seriesName = "Summer Trip" =>
                    series[i].slug = <<"s", "u", "m", "m", "e", "r", "-", "t", "r", "i", "p">>
             /\ series[i].seriesName = "2023_Winter!" =>
                    series[i].slug = <<"2", "0", "2", "3", "_", "w", "i", "n", "t", "e", "r">>
             /\ series[i].year = 2024
             /\ ~series[i].frontPage
             /\ series[i].keywords = <<>>

C16_Witness ==
    /\ pc = "collected"
    /\ children = DirNames
    /\ nested # {}
    /\ \E p \in DOMAIN fs : p.dir = Root
    /\ Len(series) = 2
    /\ series[1].slug = <<"s", "u", "m", "m", "e", "r", "-", "t", "r", "i", "p">>
    /\ series[2].slug = <<"2", "0", "2", "3", "_", "w", "i", "n", "t", "e", "r">>

\* the states of the per-image pipeline in their order
StageOrder ==
    <<"Discovered", "Renamed", "OriginalInspected", "FormatDetected", "Optimized",
      "OptimizedInspected", "Resized", "ResizedInspected", "Recorded">>

Stage(s) == CHOOSE i \in 1..Len(StageOrder) : StageOrder[i] = s

\* C17: an execution of the pipeline passes through its states in order, one
\* state forward per step, never back and never twice, and ends in Recorded
\* or by an abort at an earlier state; the accumulator and the catalog are
\* changed by the step from ResizedInspected to Recorded only.
C17_ForwardOnlyEndsRecordedOrAbort ==
    [][/\ InPipeline /\ pc' # pc =>
            \/ pc' = StageOrder[Stage(pc) + 1]
            \/ pc' = "Aborted"
       /\ photos' # photos \/ catalog' # catalog =>
            pc = "ResizedInspected" /\ pc' = "Recorded"]_vars

\* source paths of the records, in the order of the list
RecordedPaths(ph) == [i \in 1..Len(ph) |-> ph[i].optimized.path]

\* s holds each of its entries once and in the order they have in t
InOrderOf(s, t) ==
    \A i, j \in 1..Len(s) :
        i < j => \E k, l \in 1..Len(t) : k < l /\ t[k] = s[i] /\ t[l] = s[j] /\ s[i] # s[j]

\* C18: within a run the accumulator only grows at its end: the step that
\* takes an image to Recorded appends one record, the record of that image,
\* no other step changes the list, and the records stand in the order in
\* which the walker started the pipeline on their images.
C18_AccumulatorAppendOnly ==
    [][run' = run =>
         /\ photos' # photos =>
              /\ pc = "ResizedInspected"
              /\ photos' = Append(photos, image_record)
         /\ pc # "Recorded" /\ pc' = "Recorded" =>
              /\ Len(photos') = Len(photos) + 1
              /\ photos'[Len(photos')].optimized.path = image_path
         /\ \A i \in 1..Len(photos') : photos'[i].optimized.path \in Range(invoked')
         /\ InOrderOf(RecordedPaths(photos'), invoked')]_vars

C18_Witness ==
    /\ pc = "Recorded"
    /\ Len(invoked) = 2
    /\ RecordedPaths(photos) = invoked

\* files of the initial tree that pass the extension test of the walker and
\* fail its stem test
Skipped0 ==
    {p \in DOMAIN fs0 :
        /\ EndsWithImageExt(p.name)
        /\ Contains(stem(p.name), "-original") \/ Contains(stem(p.name), "-min")}

\* C19: a file the walker skips for -original or -min in its stem is still
\* there, under its name and with its content, at every moment of the pass.
C19_SkippedFilesUntouched ==
    \A p \in Skipped0 : Exists(p) /\ fs[p] = fs0[p]

\* the paths the pipeline of candidate p renames from, renames to or saves to
PathSet(p) == {p, new_original_path_of(p), resized_path_of(p)}

\* the candidates of the pass: those present and those already processed
CandidatesOfPass == {p \in DOMAIN fs : IsCandidate(p.name)} \cup Range(invoked) \cup Candidates0

PathSetsDisjoint ==
    /\ \A p, q \in CandidatesOfPass : p # q => PathSet(p) \cap PathSet(q) = {}
    /\ \A p \in CandidatesOfPass :
         /\ ~IsCandidate(new_original_path_of(p).name)
         /\ ~IsCandidate(resized_path_of(p).name)

\* the paths whose file is gone, new or of other content than before the pass
Touched ==
    {p \in DOMAIN fs \cup DOMAIN fs0 :
        ~ (p \in DOMAIN fs /\ p \in DOMAIN fs0 /\ fs[p] = fs0[p])}

\* C20: before the walk and whenever a pipeline starts, the path sets
\* (source, -original, -min) of two distinct candidates of the pass have no
\* path in common and no -original or -min path of a candidate is a
\* candidate; whenever a pipeline has ended, every path renamed from, renamed
\* to or saved to so far lies in the path set of a candidate a pipeline was
\* started on.
C20_CandidatePathsDisjoint ==
    /\ pc \in {"start", "Discovered"} => PathSetsDisjoint
    /\ pc \in {"Recorded", "Aborted", "InsertCrashed"} =>
         Touched \cup written \subseteq UNION {PathSet(p) : p \in Range(invoked)}

C20_Witness ==
    /\ pc = "Recorded"
    /\ Len(invoked) = 2
    /\ invoked[1].dir = invoked[2].dir
    /\ PathSet(invoked[1]) \cup PathSet(invoked[2]) \subseteq written

====
